---- MODULE Spec2Model ----
(***************************************************************************)
(* Transaction construction, borsh encoding and signing of near-api-js     *)
(* (src/src/transaction.ts).                                               *)
(*                                                                         *)
(* Values: a string is the sequence of its code points, a Uint8Array the   *)
(* sequence of its bytes, a BN / number a natural number, an absent        *)
(* optional the empty sequence and a present one a one-element sequence,   *)
(* a class instance a record of its fields, an Enum instance the record    *)
(* [enum |-> name, <name> |-> payload].                                    *)
(***************************************************************************)
EXTENDS Integers, Sequences, FiniteSets, TLC

VARIABLES calls, delegateOut, codec

vars == <<calls, delegateOut, codec>>

\* ------------------------------------------------------------------ bounds
NumCalls == 2
MaxNonce == 2
MaxWrapped == 2

\* ------------------------------------------------- widths (program constants)
PublicKeyLen == 32
SignatureLen == 64
BlockHashLen == 32
DigestLen == 32

\* ---------------------------------------------------------------- helpers
\* F(x), with x evaluated once
Let(x, F(_)) == CHOOSE y \in {F(v) : v \in {x}} : TRUE

\* ss[lo] \o ... \o ss[hi]
RECURSIVE ConcatRange(_, _, _)
ConcatRange(ss, lo, hi) ==
    IF lo > hi THEN <<>>
    ELSE IF lo = hi THEN ss[lo]
    ELSE ConcatRange(ss, lo, (lo + hi) \div 2) \o ConcatRange(ss, (lo + hi) \div 2 + 1, hi)

RECURSIVE SeqsUpTo(_, _)
SeqsUpTo(S, n) ==
    IF n = 0 THEN {<<>>}
    ELSE LET shorter == SeqsUpTo(S, n - 1)
         IN  shorter \cup {Append(s, x) : s \in {t \in shorter : Len(t) = n - 1}, x \in S}

RECURSIVE WeightedSum(_, _, _)
WeightedSum(bytes, lo, hi) ==
    IF lo > hi THEN 0
    ELSE IF lo = hi THEN (bytes[lo] + 1) * ((lo % 97) + 1)
    ELSE LET mid == (lo + hi) \div 2
         IN  (WeightedSum(bytes, lo, mid) + WeightedSum(bytes, mid + 1, hi)) % 65521

Checksum(seed, bytes) ==
    Let(bytes, LAMBDA b : (seed * 131 + Len(b) + WeightedSum(b, 1, Len(b))) % 65521)

\* js-sha256: sha256.sha256.array(message), a DigestLen-byte digest of the bytes
sha256(message) ==
    Let(Checksum(7, message), LAMBDA c :
        [i \in 1..DigestLen |-> ((c \div 256) * i + (c % 256) + i) % 256])

\* ------------------------------------------------------------------- keys
\* utils/key_pair KeyType: ED25519 = 0, SECP256K1 = 1
KeyPairs ==
    { [secret |-> 11, publicKey |-> [keyType |-> 0, data |-> [i \in 1..PublicKeyLen |-> 11]]],
      [secret |-> 23, publicKey |-> [keyType |-> 1, data |-> [i \in 1..PublicKeyLen |-> 23]]] }

PublicKeys == {kp.publicKey : kp \in KeyPairs}

\* KeyPair.sign(message): { signature, publicKey }
KeyPairSign(kp, message) ==
    Let(Checksum(kp.secret, message), LAMBDA c :
        [signature |-> [i \in 1..SignatureLen |->
                            (kp.secret * i + (IF i % 2 = 1 THEN c % 256 ELSE c \div 256)) % 256],
         publicKey |-> kp.publicKey])

\* ------------------------------------------------- access keys and actions
fullAccessKey == [nonce |-> 0, permission |-> [enum |-> "fullAccess", fullAccess |-> <<>>]]

functionCallAccessKey(receiverId, methodNames, allowance) ==
    [nonce |-> 0,
     permission |-> [enum |-> "functionCall",
                     functionCall |-> [receiverId |-> receiverId, allowance |-> allowance,
                                       methodNames |-> methodNames]]]

createAccount == [enum |-> "createAccount", createAccount |-> <<>>]

deployContract(code) == [enum |-> "deployContract", deployContract |-> [code |-> code]]

\* Buffer.from(string): the UTF-8 bytes of a string of code points below 2048
RECURSIVE Utf8(_)
Utf8(s) ==
    IF s = <<>> THEN <<>>
    ELSE LET c == Head(s)
         IN  (IF c < 128 THEN <<c>> ELSE <<192 + (c \div 64), 128 + (c % 64)>>) \o Utf8(Tail(s))

\* args is [isUint8Array |-> BOOLEAN, data |-> bytes or the JSON text]
stringifyJsonOrBytes(args) == IF args.isUint8Array THEN args.data ELSE Utf8(args.data)

functionCall(methodName, args, gas, deposit, jsContract) ==
    IF jsContract
    THEN [enum |-> "functionCall",
          functionCall |-> [methodName |-> methodName, args |-> args.data, gas |-> gas, deposit |-> deposit]]
    ELSE [enum |-> "functionCall",
          functionCall |-> [methodName |-> methodName, args |-> stringifyJsonOrBytes(args),
                            gas |-> gas, deposit |-> deposit]]

transfer(deposit) == [enum |-> "transfer", transfer |-> [deposit |-> deposit]]

stake(amount, publicKey) == [enum |-> "stake", stake |-> [stake |-> amount, publicKey |-> publicKey]]

addKey(publicKey, accessKey) ==
    [enum |-> "addKey", addKey |-> [publicKey |-> publicKey, accessKey |-> accessKey]]

deleteKey(publicKey) == [enum |-> "deleteKey", deleteKey |-> [publicKey |-> publicKey]]

deleteAccount(beneficiaryId) == [enum |-> "deleteAccount", deleteAccount |-> [beneficiaryId |-> beneficiaryId]]

\* ----------------------------------------------------------------- schema
U8 == [t |-> "u8"]
U64 == [t |-> "u64"]
U128 == [t |-> "u128"]
String == [t |-> "string"]
Fixed(n) == [t |-> "fixed", n |-> n]
Vec(ft) == [t |-> "vec", of |-> ft]
Option(ft) == [t |-> "option", of |-> ft]
Class(name) == [t |-> "class", name |-> name]

SignatureSchema ==
    [kind |-> "struct", fields |-> << <<"keyType", U8>>, <<"data", Fixed(SignatureLen)>> >>]

SignedTransactionSchema ==
    [kind |-> "struct",
     fields |-> << <<"transaction", Class("Transaction")>>, <<"signature", Class("Signature")>> >>]

\* a slip: the fields in the order the class Transaction lists them
TransactionSchemaClassOrder ==
    [kind |-> "struct",
     fields |-> << <<"signerId", String>>, <<"publicKey", Class("PublicKey")>>, <<"nonce", U64>>,
                   <<"receiverId", String>>, <<"actions", Vec(Class("Action"))>>,
                   <<"blockHash", Fixed(BlockHashLen)>> >>]

TransactionSchema ==
    [kind |-> "struct",
     fields |-> << <<"signerId", String>>, <<"publicKey", Class("PublicKey")>>, <<"nonce", U64>>,
                   <<"receiverId", String>>, <<"blockHash", Fixed(BlockHashLen)>>,
                   <<"actions", Vec(Class("Action"))>> >>]

PublicKeySchema ==
    [kind |-> "struct", fields |-> << <<"keyType", U8>>, <<"data", Fixed(PublicKeyLen)>> >>]

AccessKeySchema ==
    [kind |-> "struct",
     fields |-> << <<"nonce", U64>>, <<"permission", Class("AccessKeyPermission")>> >>]

AccessKeyPermissionSchema ==
    [kind |-> "enum", field |-> "enum",
     values |-> << <<"functionCall", Class("FunctionCallPermission")>>,
                   <<"fullAccess", Class("FullAccessPermission")>> >>]

FunctionCallPermissionSchema ==
    [kind |-> "struct",
     fields |-> << <<"allowance", Option(U128)>>, <<"receiverId", String>>,
                   <<"methodNames", Vec(String)>> >>]

FullAccessPermissionSchema == [kind |-> "struct", fields |-> <<>>]

\* a slip: Transfer and Stake change places
ActionSchemaSwapped ==
    [kind |-> "enum", field |-> "enum",
     values |-> << <<"createAccount", Class("CreateAccount")>>,
                   <<"deployContract", Class("DeployContract")>>,
                   <<"functionCall", Class("FunctionCall")>>,
                   <<"stake", Class("Stake")>>,
                   <<"transfer", Class("Transfer")>>,
                   <<"addKey", Class("AddKey")>>,
                   <<"deleteKey", Class("DeleteKey")>>,
                   <<"deleteAccount", Class("DeleteAccount")>>,
                   <<"delegate", Class("SignedDelegateAction")>> >>]

\* the members of class Action, in the order it declares them
ActionDeclaration ==
    << "createAccount", "deployContract", "functionCall", "transfer", "stake", "addKey",
       "deleteKey", "deleteAccount", "delegate" >>

ActionSchema ==
    [kind |-> "enum", field |-> "enum",
     values |-> << <<"createAccount", Class("CreateAccount")>>,
                   <<"deployContract", Class("DeployContract")>>,
                   <<"functionCall", Class("FunctionCall")>>,
                   <<"transfer", Class("Transfer")>>,
                   <<"stake", Class("Stake")>>,
                   <<"addKey", Class("AddKey")>>,
                   <<"deleteKey", Class("DeleteKey")>>,
                   <<"deleteAccount", Class("DeleteAccount")>>,
                   <<"delegate", Class("SignedDelegateAction")>> >>]

DeployContractSchema == [kind |-> "struct", fields |-> << <<"code", Vec(U8)>> >>]

FunctionCallSchema ==
    [kind |-> "struct",
     fields |-> << <<"methodName", String>>, <<"args", Vec(U8)>>, <<"gas", U64>>,
                   <<"deposit", U128>> >>]

CreateAccountSchema == [kind |-> "struct", fields |-> <<>>]

\* a slip: the deposit is left out
TransferSchemaNoDeposit == [kind |-> "struct", fields |-> <<>>]

TransferSchema == [kind |-> "struct", fields |-> << <<"deposit", U128>> >>]

StakeSchema ==
    [kind |-> "struct", fields |-> << <<"stake", U128>>, <<"publicKey", Class("PublicKey")>> >>]

AddKeySchema ==
    [kind |-> "struct",
     fields |-> << <<"publicKey", Class("PublicKey")>>, <<"accessKey", Class("AccessKey")>> >>]

DeleteKeySchema == [kind |-> "struct", fields |-> << <<"publicKey", Class("PublicKey")>> >>]

DeleteAccountSchema == [kind |-> "struct", fields |-> << <<"beneficiaryId", String>> >>]

NonDelegateActionSchema == [kind |-> "struct", fields |-> << <<"action", Class("Action")>> >>]

DelegateActionSchema ==
    [kind |-> "struct",
     fields |-> << <<"senderId", String>>, <<"receiverId", String>>,
                   <<"actions", Vec(Class("NonDelegateAction"))>>, <<"nonce", U64>>,
                   <<"blockHash", Fixed(BlockHashLen)>>, <<"publicKey", Class("PublicKey")>> >>]

SignedDelegateActionSchema ==
    [kind |-> "struct",
     fields |-> << <<"delegateAction", Class("DelegateAction")>>,
                   <<"signature", Class("Signature")>> >>]

SCHEMA ==
    [Signature |-> SignatureSchema,
     SignedTransaction |-> SignedTransactionSchema,
     Transaction |-> TransactionSchema,
     PublicKey |-> PublicKeySchema,
     AccessKey |-> AccessKeySchema,
     AccessKeyPermission |-> AccessKeyPermissionSchema,
     FunctionCallPermission |-> FunctionCallPermissionSchema,
     FullAccessPermission |-> FullAccessPermissionSchema,
     Action |-> ActionSchema,
     CreateAccount |-> CreateAccountSchema,
     DeployContract |-> DeployContractSchema,
     FunctionCall |-> FunctionCallSchema,
     Transfer |-> TransferSchema,
     Stake |-> StakeSchema,
     AddKey |-> AddKeySchema,
     DeleteKey |-> DeleteKeySchema,
     DeleteAccount |-> DeleteAccountSchema,
     NonDelegateAction |-> NonDelegateActionSchema,
     DelegateAction |-> DelegateActionSchema,
     SignedDelegateAction |-> SignedDelegateActionSchema]

\* ------------------------------------------------------------ borsh writer
RECURSIVE LittleEndian(_, _)
LittleEndian(n, width) ==
    IF width = 0 THEN <<>> ELSE <<n % 256>> \o LittleEndian(n \div 256, width - 1)

RECURSIVE serializeField(_, _)
RECURSIVE serializeStruct(_, _)

serializeField(value, ft) ==
    CASE ft.t = "u8" -> <<value>>
      [] ft.t = "u64" -> LittleEndian(value, 8)
      [] ft.t = "u128" -> LittleEndian(value, 16)
      [] ft.t = "string" -> Let(Utf8(value), LAMBDA b : LittleEndian(Len(b), 4) \o b)
      [] ft.t = "fixed" -> value
      [] ft.t = "vec" ->
            LittleEndian(Len(value), 4)
                \o ConcatRange([i \in 1..Len(value) |-> serializeField(value[i], ft.of)], 1, Len(value))
      [] ft.t = "option" ->
            IF value = <<>> THEN <<0>> ELSE <<1>> \o serializeField(value[1], ft.of)
      [] ft.t = "class" -> serializeStruct(value, ft.name)

serializeStruct(obj, cls) ==
    LET schema == SCHEMA[cls]
    IN  IF schema.kind = "struct"
        THEN ConcatRange([i \in 1..Len(schema.fields) |->
                            serializeField(obj[schema.fields[i][1]], schema.fields[i][2])],
                         1, Len(schema.fields))
        ELSE LET name == obj[schema.field]
                 idx == CHOOSE i \in 1..Len(schema.values) : schema.values[i][1] = name
             IN  <<idx - 1>> \o serializeField(obj[name], schema.values[idx][2])

serialize(obj, cls) == Let(obj, LAMBDA o : serializeStruct(o, cls))

\* ------------------------------------------------------------ borsh reader
\* the number whose little-endian digits are bytes[lo..hi]
RECURSIVE FromLittleEndianRange(_, _, _)
FromLittleEndianRange(bytes, lo, hi) ==
    IF lo = hi THEN bytes[lo]
    ELSE LET mid == (lo + hi) \div 2
             high == FromLittleEndianRange(bytes, mid + 1, hi)
         IN  FromLittleEndianRange(bytes, lo, mid) + (IF high = 0 THEN 0 ELSE high * 256 ^ (mid + 1 - lo))

FromLittleEndian(bytes) == Let(bytes, LAMBDA b : FromLittleEndianRange(b, 1, Len(b)))

Drop(buf, n) == SubSeq(buf, n + 1, Len(buf))

RECURSIVE Utf8Decode(_)
Utf8Decode(bytes) ==
    IF bytes = <<>> THEN <<>>
    ELSE IF Head(bytes) < 128 THEN <<Head(bytes)>> \o Utf8Decode(Tail(bytes))
    ELSE <<(Head(bytes) - 192) * 64 + (bytes[2] - 128)>> \o Utf8Decode(Drop(bytes, 2))

RECURSIVE deserializeField(_, _)
RECURSIVE deserializeStruct(_, _)
RECURSIVE readArray(_, _, _, _)
RECURSIVE readFields(_, _, _, _)

\* each reader returns [value |-> the value read, rest |-> the bytes not yet consumed]
deserializeField(buf, ft) ==
    CASE ft.t = "u8" -> [value |-> buf[1], rest |-> Drop(buf, 1)]
      [] ft.t = "u64" -> [value |-> FromLittleEndian(SubSeq(buf, 1, 8)), rest |-> Drop(buf, 8)]
      [] ft.t = "u128" -> [value |-> FromLittleEndian(SubSeq(buf, 1, 16)), rest |-> Drop(buf, 16)]
      [] ft.t = "string" ->
            LET n == FromLittleEndian(SubSeq(buf, 1, 4))
            IN  [value |-> Utf8Decode(SubSeq(buf, 5, 4 + n)), rest |-> Drop(buf, 4 + n)]
      [] ft.t = "fixed" -> [value |-> SubSeq(buf, 1, ft.n), rest |-> Drop(buf, ft.n)]
      [] ft.t = "vec" ->
            readArray(Drop(buf, 4), ft.of, FromLittleEndian(SubSeq(buf, 1, 4)), <<>>)
      [] ft.t = "option" ->
            IF buf[1] = 0 THEN [value |-> <<>>, rest |-> Drop(buf, 1)]
            ELSE Let(deserializeField(Drop(buf, 1), ft.of), LAMBDA r :
                    [value |-> <<r.value>>, rest |-> r.rest])
      [] ft.t = "class" -> deserializeStruct(buf, ft.name)

readArray(buf, ft, n, acc) ==
    IF n = 0 THEN [value |-> acc, rest |-> buf]
    ELSE Let(deserializeField(buf, ft), LAMBDA r :
            readArray(r.rest, ft, n - 1, Append(acc, r.value)))

readFields(buf, fields, i, acc) ==
    IF i > Len(fields) THEN [value |-> acc, rest |-> buf]
    ELSE Let(deserializeField(buf, fields[i][2]), LAMBDA r :
            readFields(r.rest, fields, i + 1, (fields[i][1] :> r.value) @@ acc))

deserializeStruct(buf, cls) ==
    IF SCHEMA[cls].kind = "struct"
    THEN readFields(buf, SCHEMA[cls].fields, 1, <<>>)
    ELSE Let(deserializeField(Drop(buf, 1), SCHEMA[cls].values[buf[1] + 1][2]), LAMBDA r :
            [value |-> (SCHEMA[cls].field :> SCHEMA[cls].values[buf[1] + 1][1])
                          @@ (SCHEMA[cls].values[buf[1] + 1][1] :> r.value),
             rest |-> r.rest])

\* deserialize(SCHEMA, classType, buffer): <<value>>, or <<>> when bytes are left over
deserialize(buffer, cls) ==
    Let(buffer, LAMBDA buf :
    Let(deserializeStruct(buf, cls), LAMBDA r :
        IF r.rest # <<>> THEN <<>> ELSE <<r.value>>))

\* ------------------------------------------------------------- sample data
Alice == <<97, 108, 105, 99, 101>>
Bob == <<98, 111, 98>>
Contract == <<99, 46, 116, 101, 115, 116>>
Testnet == <<116, 101, 115, 116>>
Default == <<100, 101, 102>>
Accounts == {Alice, Bob}
Networks == {Testnet}
BlockHash == [i \in 1..BlockHashLen |-> 200 + (i % 7)]
SignerErrors == {"SignerUnavailable", "SigningRejected"}

KeyOf(secret) == CHOOSE kp \in KeyPairs : kp.secret = secret

\* ------------------------------------------------------- signer capability
\* the key the signer holds for an account on a network
SignerKey(accountId, networkId) == IF accountId = Alice THEN KeyOf(11) ELSE KeyOf(23)

\* Signer.getPublicKey(accountId, networkId), when it succeeds
SignerGetPublicKey(accountId, networkId) == SignerKey(accountId, networkId).publicKey

\* Signer.signMessage(message, accountId, networkId), when it succeeds
SignerSignMessage(message, accountId, networkId) ==
    KeyPairSign(SignerKey(accountId, networkId), sha256(message))

\* --------------------------------------------------------- delegate builder
\* a slip: the key signs the encoded bytes themselves, not their hash
signDelegateActionDataUnhashed(delegateAction, keyPair) ==
    Let(serialize(delegateAction, "DelegateAction"), LAMBDA message :
    Let(KeyPairSign(keyPair, message), LAMBDA signature :
        [keyType |-> keyPair.publicKey.keyType, data |-> signature.signature]))

signDelegateActionData(delegateAction, keyPair) ==
    Let(serialize(delegateAction, "DelegateAction"), LAMBDA message :
    Let(sha256(message), LAMBDA hash :
    Let(KeyPairSign(keyPair, hash), LAMBDA signature :
        [keyType |-> keyPair.publicKey.keyType, data |-> signature.signature])))

delegateAction(senderId, receiverId, actions, nonce, blockHash, keyPair) ==
    LET publicKey == keyPair.publicKey
        nonDelegateActions == [i \in 1..Len(actions) |-> [action |-> actions[i]]]
    IN  Let([senderId |-> senderId, receiverId |-> receiverId, actions |-> nonDelegateActions,
             nonce |-> nonce, blockHash |-> blockHash, publicKey |-> publicKey],
            LAMBDA da :
                [enum |-> "delegate",
                 delegate |-> [delegateAction |-> da, signature |-> signDelegateActionData(da, keyPair)]])

\* --------------------------------------------------------- signing pipeline
Calls == 1..NumCalls

IdleCall ==
    [pc |-> "idle", shape |-> "none", args |-> <<>>, accountId |-> <<>>, networkId |-> <<>>,
     transaction |-> <<>>, message |-> <<>>, hash |-> <<>>, log |-> <<>>,
     result |-> <<>>, error |-> "", overlapped |-> FALSE]

Event(ev, accountId, networkId, data) ==
    [ev |-> ev, accountId |-> accountId, networkId |-> networkId, data |-> data]

InFlight(p) == calls[p].pc \in {"awaitPK", "awaitSign"}

OthersInFlight(p) == \E q \in Calls \ {p} : InFlight(q)

\* a slip: signerId and receiverId change places
createTransactionSwapped(signerId, publicKey, receiverId, nonce, actions, blockHash) ==
    [signerId |-> receiverId, publicKey |-> publicKey, nonce |-> nonce, receiverId |-> signerId,
     actions |-> actions, blockHash |-> blockHash]

createTransaction(signerId, publicKey, receiverId, nonce, actions, blockHash) ==
    [signerId |-> signerId, publicKey |-> publicKey, nonce |-> nonce, receiverId |-> receiverId,
     actions |-> actions, blockHash |-> blockHash]

\* signTransactionObject up to its await: the frame suspended at signer.signMessage
signTransactionObject(c, transaction, accountId, networkId) ==
    Let(serialize(transaction, "Transaction"), LAMBDA message :
    Let(sha256(message), LAMBDA hash :
        [c EXCEPT !.pc = "awaitSign", !.transaction = <<transaction>>,
                  !.accountId = accountId, !.networkId = networkId,
                  !.message = message, !.hash = hash,
                  !.log = Append(@, Event("signMessage", accountId, networkId, message))]))

\* a slip: the key type of the signer's key, not of the transaction's key
signTransactionObjectResumeSignerKeyType(c, signature) ==
    LET transaction == c.transaction[1]
        signedTx == [transaction |-> transaction,
                     signature |-> [keyType |-> signature.publicKey.keyType,
                                    data |-> signature.signature]]
    IN  [c EXCEPT !.pc = "done", !.result = << [hash |-> c.hash, signedTx |-> signedTx] >>]

\* signTransactionObject after its await: assemble the SignedTransaction
signTransactionObjectResume(c, signature) ==
    LET transaction == c.transaction[1]
        signedTx == [transaction |-> transaction,
                     signature |-> [keyType |-> transaction.publicKey.keyType,
                                    data |-> signature.signature]]
    IN  [c EXCEPT !.pc = "done", !.result = << [hash |-> c.hash, signedTx |-> signedTx] >>]

\* the request the signer of call p is working on: the last event of p's log
Request(p) == calls[p].log[Len(calls[p].log)]

\* the sample inputs of a signTransaction call
SampleActions == <<transfer(1000), createAccount>>

Transactions ==
    { [signerId |-> a, publicKey |-> pk, nonce |-> 1, receiverId |-> Contract,
       actions |-> SampleActions, blockHash |-> BlockHash] : a \in Accounts, pk \in PublicKeys }

\* signTransaction(transaction, signer, accountId, networkId)
SignTransactionPrebuilt(p) ==
    /\ calls[p].pc = "idle"
    /\ \E transaction \in Transactions, networkId \in Networks :
          LET accountId == transaction.signerId
              c == [calls[p] EXCEPT !.shape = "prebuilt",
                                    !.args = [transaction |-> transaction, accountId |-> accountId,
                                              networkId |-> networkId]]
          IN  calls' = [calls EXCEPT ![p] = signTransactionObject(c, transaction, accountId, networkId)]
    /\ UNCHANGED <<delegateOut, codec>>

\* signTransaction(receiverId, nonce, actions, blockHash, signer, accountId, networkId)
SignTransactionParts(p) ==
    /\ calls[p].pc = "idle"
    /\ \E accountId \in Accounts, networkId \in Networks :
          calls' = [calls EXCEPT ![p] =
                      [@ EXCEPT !.pc = "awaitPK", !.shape = "parts",
                                !.args = [receiverId |-> Contract, nonce |-> 1,
                                          actions |-> SampleActions, blockHash |-> BlockHash,
                                          accountId |-> accountId, networkId |-> networkId],
                                !.accountId = accountId, !.networkId = networkId,
                                !.log = Append(@, Event("getPublicKey", accountId, networkId, <<>>))]]
    /\ UNCHANGED <<delegateOut, codec>>

\* a slip: the signature is requested for another network than the key was
GetPublicKeyReturnsOtherNetwork(p) ==
    /\ calls[p].pc = "awaitPK"
    /\ LET a == calls[p].args
           publicKey == SignerGetPublicKey(Request(p).accountId, Request(p).networkId)
           transaction == createTransaction(a.accountId, publicKey, a.receiverId, a.nonce,
                                            a.actions, a.blockHash)
           c == [calls[p] EXCEPT !.log = Append(@, Event("publicKey", <<>>, <<>>, publicKey))]
       IN  calls' = [calls EXCEPT ![p] = signTransactionObject(c, transaction, a.accountId, Default)]
    /\ UNCHANGED <<delegateOut, codec>>

\* await signer.getPublicKey resolves: build the Transaction, go on to sign it
GetPublicKeyReturns(p) ==
    /\ calls[p].pc = "awaitPK"
    /\ LET a == calls[p].args
           publicKey == SignerGetPublicKey(Request(p).accountId, Request(p).networkId)
           transaction == createTransaction(a.accountId, publicKey, a.receiverId, a.nonce,
                                            a.actions, a.blockHash)
           c == [calls[p] EXCEPT !.log = Append(@, Event("publicKey", <<>>, <<>>, publicKey))]
       IN  calls' = [calls EXCEPT ![p] = signTransactionObject(c, transaction, a.accountId, a.networkId)]
    /\ UNCHANGED <<delegateOut, codec>>

\* await signer.getPublicKey rejects: the async function rejects with the same error
GetPublicKeyFails(p) ==
    /\ calls[p].pc = "awaitPK"
    /\ \E err \in SignerErrors :
          calls' = [calls EXCEPT ![p] =
                      [@ EXCEPT !.pc = "failed", !.error = err,
                                !.log = Append(@, Event("getPublicKeyError", <<>>, <<>>, err))]]
    /\ UNCHANGED <<delegateOut, codec>>

\* a slip: a frame kept in one place for all calls, so that a call resumes on the
\* frame of another call that is still waiting for its signature
SignMessageReturnsSharedFrame(p) ==
    /\ calls[p].pc = "awaitSign"
    /\ LET signature == SignerSignMessage(Request(p).data, Request(p).accountId, Request(p).networkId)
           others == {q \in Calls \ {p} : calls[q].pc = "awaitSign"}
           frame == IF others = {} THEN calls[p] ELSE calls[CHOOSE q \in others : TRUE]
           c == [calls[p] EXCEPT !.overlapped = OthersInFlight(p),
                                 !.transaction = frame.transaction, !.hash = frame.hash,
                                 !.log = Append(@, Event("signature", <<>>, <<>>, signature.signature))]
       IN  calls' = [calls EXCEPT ![p] = signTransactionObjectResume(c, signature)]
    /\ UNCHANGED <<delegateOut, codec>>

\* await signer.signMessage resolves
SignMessageReturns(p) ==
    /\ calls[p].pc = "awaitSign"
    /\ LET signature == SignerSignMessage(Request(p).data, Request(p).accountId, Request(p).networkId)
           c == [calls[p] EXCEPT !.overlapped = OthersInFlight(p),
                                 !.log = Append(@, Event("signature", <<>>, <<>>, signature.signature))]
       IN  calls' = [calls EXCEPT ![p] = signTransactionObjectResume(c, signature)]
    /\ UNCHANGED <<delegateOut, codec>>

\* a slip: one more try after the signer refused
SignMessageFailsRetry(p) ==
    /\ calls[p].pc = "awaitSign"
    /\ \E err \in SignerErrors :
          calls' = [calls EXCEPT ![p] =
                      IF Len(calls[p].log) < 5
                      THEN [@ EXCEPT !.log = @ \o << Event("signMessageError", <<>>, <<>>, err),
                                                     Event("signMessage", calls[p].accountId,
                                                           calls[p].networkId, calls[p].message) >>]
                      ELSE [@ EXCEPT !.pc = "failed", !.error = err,
                                     !.log = Append(@, Event("signMessageError", <<>>, <<>>, err))]]
    /\ UNCHANGED <<delegateOut, codec>>

\* await signer.signMessage rejects
SignMessageFails(p) ==
    /\ calls[p].pc = "awaitSign"
    /\ \E err \in SignerErrors :
          calls' = [calls EXCEPT ![p] =
                      [@ EXCEPT !.pc = "failed", !.error = err,
                                !.log = Append(@, Event("signMessageError", <<>>, <<>>, err))]]
    /\ UNCHANGED <<delegateOut, codec>>

\* the caller takes the settled promise; nothing of the invocation is kept
Return(p) ==
    /\ calls[p].pc \in {"done", "failed"}
    /\ calls' = [calls EXCEPT ![p] = IdleCall]
    /\ UNCHANGED <<delegateOut, codec>>

\* ------------------------------------------------------- signing: the claims
Done(p) == calls[p].pc = "done"

EventIndices(p, ev) == {i \in 1..Len(calls[p].log) : calls[p].log[i].ev = ev}

\* the signature bytes the signer returned to call p
ReturnedSignature(p) == calls[p].log[CHOOSE i \in EventIndices(p, "signature") : TRUE].data

\* C2: a pre-built Transaction tx whose signMessage succeeded with bytes S comes back
\* as (hash, signedTx): hash is the SHA-256 of tx's canonical encoding, signedTx holds
\* tx unchanged, S as signature data and the key type of tx.publicKey
C2_SignTransactionResult ==
    \A p \in Calls :
        (Done(p) /\ calls[p].shape = "prebuilt") =>
            LET tx == calls[p].args.transaction
                r == calls[p].result[1]
            IN  /\ r.hash = sha256(serialize(tx, "Transaction"))
                /\ r.signedTx.transaction = tx
                /\ r.signedTx.signature.data = ReturnedSignature(p)
                /\ r.signedTx.signature.keyType = tx.publicKey.keyType

\* a pre-built Transaction was signed whose key is not of the type of the signer's key
C2_Witness ==
    \E p \in Calls :
        /\ Done(p) /\ calls[p].shape = "prebuilt"
        /\ calls[p].args.transaction.publicKey.keyType
              # SignerGetPublicKey(calls[p].args.accountId, calls[p].args.networkId).keyType

\* the Transaction the build-then-sign call of p is to build
PartsTransaction(p) ==
    [signerId |-> calls[p].args.accountId,
     publicKey |-> SignerGetPublicKey(calls[p].args.accountId, calls[p].args.networkId),
     nonce |-> calls[p].args.nonce, receiverId |-> calls[p].args.receiverId,
     actions |-> calls[p].args.actions, blockHash |-> calls[p].args.blockHash]

SameCall(p, q) ==
    /\ Done(p) /\ calls[p].shape = "parts"
    /\ Done(q) /\ calls[q].shape = "prebuilt"
    /\ calls[q].args.transaction = PartsTransaction(p)
    /\ calls[q].args.accountId = calls[p].args.accountId
    /\ calls[q].args.networkId = calls[p].args.networkId

\* C3: the build-then-sign call returns what the pre-built call returns on the
\* Transaction made of the same parts and the signer's key
C3_CallShapesAgree ==
    \A p, q \in Calls : SameCall(p, q) => calls[p].result = calls[q].result

\* both shapes were called on the same parts, and both returned
C3_Witness == \E p, q \in Calls : SameCall(p, q)

ErrorEvents == {"getPublicKeyError", "signMessageError"}

\* C4: in a run of signTransaction the signer is asked at most once for the key and at
\* most once for a signature, never for a signature after the key failed, and a failure
\* of either is the failure of signTransaction, with the same error and no result
C4_SignerFailurePropagates ==
    \A p \in Calls :
        /\ Cardinality(EventIndices(p, "signMessage")) <= 1
        /\ Cardinality(EventIndices(p, "getPublicKey")) <= 1
        /\ EventIndices(p, "getPublicKeyError") # {} => EventIndices(p, "signMessage") = {}
        /\ \A i \in 1..Len(calls[p].log) :
              calls[p].log[i].ev \in ErrorEvents =>
                  /\ calls[p].pc = "failed"
                  /\ calls[p].error = calls[p].log[i].data
                  /\ calls[p].result = <<>>

\* one call failed at getPublicKey while another failed at signMessage
C4_Witness ==
    \E p, q \in Calls :
        /\ calls[p].pc = "failed" /\ EventIndices(p, "getPublicKeyError") # {}
        /\ calls[q].pc = "failed" /\ EventIndices(q, "signMessageError") # {}
        /\ calls[p].error # calls[q].error

LogKinds(p) == [i \in 1..Len(calls[p].log) |-> calls[p].log[i].ev]

IsPrefix(s, t) == Len(s) <= Len(t) /\ s = SubSeq(t, 1, Len(s))

\* C5: build-then-sign goes in one order: getPublicKey returns, then the Transaction is
\* built with that key, then signMessage is asked over its canonical bytes with the
\* accountId and networkId getPublicKey was asked with, and the result is assembled only
\* once signMessage returned
C5_BuildThenSignOrder ==
    \A p \in Calls :
        calls[p].shape = "parts" =>
            LET log == calls[p].log
            IN  /\ \/ IsPrefix(LogKinds(p), <<"getPublicKey", "publicKey", "signMessage", "signature">>)
                   \/ LogKinds(p) = <<"getPublicKey", "getPublicKeyError">>
                   \/ LogKinds(p) = <<"getPublicKey", "publicKey", "signMessage", "signMessageError">>
                /\ calls[p].transaction # <<>> =>
                      /\ Len(log) >= 2 /\ log[2].ev = "publicKey"
                      /\ calls[p].transaction[1] =
                            [signerId |-> calls[p].args.accountId, publicKey |-> log[2].data,
                             nonce |-> calls[p].args.nonce, receiverId |-> calls[p].args.receiverId,
                             actions |-> calls[p].args.actions, blockHash |-> calls[p].args.blockHash]
                /\ Len(log) >= 3 =>
                      /\ log[3].data = serialize(calls[p].transaction[1], "Transaction")
                      /\ log[3].accountId = log[1].accountId
                      /\ log[3].networkId = log[1].networkId
                /\ calls[p].result # <<>> => (Len(log) = 4 /\ log[4].ev = "signature")

\* a build-then-sign call went through all its steps
C5_Witness ==
    \E p \in Calls :
        /\ calls[p].shape = "parts" /\ Done(p)
        /\ LogKinds(p) = <<"getPublicKey", "publicKey", "signMessage", "signature">>

\* what the call of p returns when it runs alone
Alone(p) ==
    LET tx == IF calls[p].shape = "prebuilt" THEN calls[p].args.transaction ELSE PartsTransaction(p)
    IN  Let(serialize(tx, "Transaction"), LAMBDA message :
            [hash |-> sha256(message),
             signedTx |-> [transaction |-> tx,
                           signature |-> [keyType |-> tx.publicKey.keyType,
                                          data |-> SignerSignMessage(message, calls[p].args.accountId,
                                                                     calls[p].args.networkId).signature]]])

\* C6: whatever the other calls do meanwhile, a call returns the hash of its own
\* Transaction and its own Transaction with the signature returned to its own request,
\* as if it had run alone; and a call that returned leaves nothing behind
C6_NoInterference ==
    \A p \in Calls :
        /\ Done(p) => /\ calls[p].result[1] = Alone(p)
                      /\ calls[p].result[1].signedTx.signature.data = ReturnedSignature(p)
        /\ calls[p].pc = "idle" => calls[p] = IdleCall

\* a call returned while another call, on another Transaction, was waiting for its signer
C6_Witness ==
    \E p, q \in Calls :
        /\ Done(p) /\ calls[p].overlapped
        /\ calls[q].pc = "awaitSign"
        /\ calls[q].transaction # calls[p].transaction

\* ---------------------------------------------------- delegate, then relay
WrapsDelegate(action) ==
    \E i \in 1..Len(action.delegate.delegateAction.actions) :
        action.delegate.delegateAction.actions[i].action.enum = "delegate"

\* the lists a caller hands to delegateAction: first plain actions only, then lists
\* that hold the Delegate action built before (which keeps the values finite)
PlainActions == {transfer(1), createAccount}

WrappableLists ==
    IF delegateOut = <<>>
    THEN SeqsUpTo(PlainActions, MaxWrapped)
    ELSE IF WrapsDelegate(delegateOut[1].result) THEN {}
    ELSE {l \in SeqsUpTo(PlainActions \cup {delegateOut[1].result}, MaxWrapped) :
            \E i \in 1..Len(l) : l[i] = delegateOut[1].result}

\* the wrapping call takes a later nonce than the call whose result it wraps
DelegateNonces ==
    IF delegateOut = <<>> THEN 1..MaxNonce ELSE (delegateOut[1].args.nonce + 1)..MaxNonce

\* a caller runs delegateAction(senderId, receiverId, actions, nonce, blockHash, keyPair)
DelegateActionCall ==
    /\ calls[1].pc = "idle"
    /\ \E actions \in WrappableLists, nonce \in DelegateNonces, keyPair \in KeyPairs :
          LET args == [senderId |-> Alice, receiverId |-> Contract, actions |-> actions,
                       nonce |-> nonce, blockHash |-> BlockHash, keyPair |-> keyPair]
          IN  delegateOut' = << [args |-> args,
                                 result |-> delegateAction(args.senderId, args.receiverId, args.actions,
                                                           args.nonce, args.blockHash, args.keyPair)] >>
    /\ UNCHANGED <<calls, codec>>

\* a relayer places the Delegate action in its own Transaction and signs that
RelayDelegate ==
    /\ calls[1].pc = "idle"
    /\ delegateOut # <<>>
    /\ LET transaction == createTransaction(Bob, SignerGetPublicKey(Bob, Testnet), Alice, 1,
                                            <<delegateOut[1].result, transfer(1000)>>, BlockHash)
           c == [calls[1] EXCEPT !.shape = "prebuilt",
                                 !.args = [transaction |-> transaction, accountId |-> Bob,
                                           networkId |-> Testnet]]
       IN  calls' = [calls EXCEPT ![1] = signTransactionObject(c, transaction, Bob, Testnet)]
    /\ UNCHANGED <<delegateOut, codec>>

\* ------------------------------------------------ delegate, relay: the claims
\* C1: delegateAction never returns a Delegate action whose wrapped actions hold a
\* Delegate action: a list that holds one is rejected
C1_NestingRejected == delegateOut # <<>> => ~WrapsDelegate(delegateOut[1].result)

\* the signature the key of publicKey makes over the hash of the DelegateAction alone
InnerSignature(da) ==
    LET keyPair == CHOOSE kp \in KeyPairs : kp.publicKey = da.publicKey
    IN  KeyPairSign(keyPair, sha256(serialize(da, "DelegateAction"))).signature

\* what delegateAction is to return on args
SelfSigned(args, result) ==
    /\ result.enum = "delegate"
    /\ LET da == result.delegate.delegateAction
           signature == result.delegate.signature
       IN  /\ da.senderId = args.senderId /\ da.receiverId = args.receiverId
           /\ da.nonce = args.nonce /\ da.blockHash = args.blockHash
           /\ Len(da.actions) = Len(args.actions)
           /\ \A i \in 1..Len(args.actions) : da.actions[i] = [action |-> args.actions[i]]
           /\ da.publicKey = args.keyPair.publicKey
           /\ signature.keyType = args.keyPair.publicKey.keyType
           /\ signature.data = InnerSignature(da)

\* the Delegate action a relayer placed in its Transaction keeps the signature over
\* its own DelegateAction, whatever the Transaction and whoever signs it
InnerDomainKept ==
    calls[1].transaction # <<>> =>
        LET inner == calls[1].transaction[1].actions[1].delegate
        IN  /\ inner = delegateOut[1].result.delegate
            /\ inner.signature.data = InnerSignature(inner.delegateAction)

\* C7: delegateAction returns the Delegate action that holds the given senderId,
\* receiverId, nonce and blockHash, the given actions in order, each in a
\* NonDelegateAction, and the local key's public key, signed by the local key over the
\* hash of the encoding of the DelegateAction alone; the call asks no signer, and the
\* signature stays what it is in a relayer's Transaction
C7_DelegateSelfSigns ==
    /\ [](delegateOut # <<>> => SelfSigned(delegateOut[1].args, delegateOut[1].result))
    /\ []InnerDomainKept
    /\ [][delegateOut' # delegateOut => calls' = calls]_vars

\* a Delegate action wrapping [transfer(1), createAccount], signed with one key, went
\* out in a Transaction a relayer signed with another key
C7_Witness ==
    /\ delegateOut # <<>>
    /\ delegateOut[1].args.actions = <<transfer(1), createAccount>>
    /\ Done(1)
    /\ calls[1].result[1].signedTx.transaction.actions[1] = delegateOut[1].result
    /\ calls[1].result[1].signedTx.transaction.publicKey # delegateOut[1].args.keyPair.publicKey

\* ------------------------------------------------------------------- codec
TransactionEncode(transaction) == serialize(transaction, "Transaction")

TransactionDecode(bytes) == deserialize(bytes, "Transaction")

SignedTransactionEncode(signedTx) == serialize(signedTx, "SignedTransaction")

SignedTransactionDecode(bytes) == deserialize(bytes, "SignedTransaction")

SampleDelegate == delegateAction(Alice, Contract, <<transfer(1), createAccount>>, 1, BlockHash, KeyOf(11))

\* one action of every variant, from the constructors
CodecActions ==
    { createAccount,
      deployContract(<<0, 97, 115, 109>>),
      functionCall(<<103, 233>>, [isUint8Array |-> FALSE, data |-> <<123, 233, 125>>], 30, 5, FALSE),
      functionCall(<<103>>, [isUint8Array |-> TRUE, data |-> <<1, 2>>], 30, 0, TRUE),
      transfer(1000),
      stake(7, KeyOf(23).publicKey),
      addKey(KeyOf(11).publicKey, fullAccessKey),
      addKey(KeyOf(11).publicKey, functionCallAccessKey(Contract, <<Alice, Bob>>, <<>>)),
      addKey(KeyOf(23).publicKey, functionCallAccessKey(Contract, <<>>, <<300>>)),
      deleteKey(KeyOf(11).publicKey),
      deleteAccount(Bob),
      SampleDelegate }

EveryVariant ==
    << createAccount, deployContract(<<0, 97, 115, 109>>),
       functionCall(<<103, 233>>, [isUint8Array |-> FALSE, data |-> <<123, 233, 125>>], 30, 5, FALSE),
       transfer(1000), stake(7, KeyOf(23).publicKey),
       addKey(KeyOf(11).publicKey, functionCallAccessKey(Contract, <<Alice, Bob>>, <<>>)),
       deleteKey(KeyOf(11).publicKey), deleteAccount(Bob), SampleDelegate >>

CodecTransactions ==
    { [signerId |-> a, publicKey |-> pk, nonce |-> n, receiverId |-> Contract,
       actions |-> acts, blockHash |-> BlockHash] :
         a \in Accounts, pk \in PublicKeys, n \in 1..MaxNonce,
         acts \in SeqsUpTo(CodecActions, 1) \cup {EveryVariant} }

\* a caller encodes a Transaction and decodes the bytes
EncodeDecodeTransaction ==
    /\ codec = <<>>
    /\ \E transaction \in CodecTransactions :
          codec' = Let(TransactionEncode(transaction), LAMBDA bytes :
                          << [cls |-> "Transaction", value |-> transaction, bytes |-> bytes,
                              decoded |-> TransactionDecode(bytes)] >>)
    /\ UNCHANGED <<calls, delegateOut>>

\* a caller encodes a SignedTransaction and decodes the bytes
EncodeDecodeSignedTransaction ==
    /\ codec = <<>>
    /\ \E transaction \in CodecTransactions :
          codec' = Let([transaction |-> transaction,
                        signature |-> [keyType |-> transaction.publicKey.keyType,
                                       data |-> SignerSignMessage(TransactionEncode(transaction),
                                                                  transaction.signerId, Testnet).signature]],
                       LAMBDA signedTx :
                   Let(SignedTransactionEncode(signedTx), LAMBDA bytes :
                       << [cls |-> "SignedTransaction", value |-> signedTx, bytes |-> bytes,
                           decoded |-> SignedTransactionDecode(bytes)] >>))
    /\ UNCHANGED <<calls, delegateOut>>

\* a caller serializes one Action and deserializes the bytes
EncodeDecodeAction ==
    /\ codec = <<>>
    /\ \E action \in CodecActions :
          codec' = Let(serialize(action, "Action"), LAMBDA bytes :
                          << [cls |-> "Action", value |-> action, bytes |-> bytes,
                              decoded |-> deserialize(bytes, "Action")] >>)
    /\ UNCHANGED <<calls, delegateOut>>

\* --------------------------------------------------------- codec: the claims
\* C8: decoding the encoding of a Transaction or a SignedTransaction built from the
\* constructors, whatever Action variants it holds, gives back a value equal to it in
\* every field
C8_RoundTrip ==
    (codec # <<>> /\ codec[1].cls \in {"Transaction", "SignedTransaction"}) =>
        codec[1].decoded = <<codec[1].value>>

\* a SignedTransaction holding one action of every variant, an AddKey with a
\* FunctionCall permission without allowance among them, was encoded and decoded
C8_Witness ==
    /\ codec # <<>>
    /\ codec[1].cls = "SignedTransaction"
    /\ codec[1].value.transaction.actions = EveryVariant
    /\ {EveryVariant[i].enum : i \in 1..Len(EveryVariant)} = {ActionDeclaration[i] : i \in 1..Len(ActionDeclaration)}
    /\ EveryVariant[6].addKey.accessKey.permission.functionCall.allowance = <<>>
    /\ codec[1].decoded # <<>>
    /\ codec[1].decoded[1].transaction.actions[4] = transfer(1000)

\* the index each variant of Action is declared to have
DeclaredIndex(variant) ==
    CASE variant = "createAccount" -> 0
      [] variant = "deployContract" -> 1
      [] variant = "functionCall" -> 2
      [] variant = "transfer" -> 3
      [] variant = "stake" -> 4
      [] variant = "addKey" -> 5
      [] variant = "deleteKey" -> 6
      [] variant = "deleteAccount" -> 7
      [] variant = "delegate" -> 8

\* C9: the first byte of an encoded Action is the declared index of its variant, 0 for
\* CreateAccount up to 8 for Delegate, and the schema lists the variants in the order
\* class Action declares them
C9_DiscriminantStability ==
    /\ (codec # <<>> /\ codec[1].cls = "Action") =>
          codec[1].bytes[1] = DeclaredIndex(codec[1].value.enum)
    /\ [i \in 1..Len(ActionSchema.values) |-> ActionSchema.values[i][1]] = ActionDeclaration
    /\ \A i \in 1..Len(ActionDeclaration) : DeclaredIndex(ActionDeclaration[i]) = i - 1

\* a Delegate action was encoded, and its first byte is 8
C9_Witness ==
    /\ codec # <<>>
    /\ codec[1].cls = "Action"
    /\ codec[1].value.enum = "delegate"
    /\ codec[1].bytes[1] = 8

\* the encodings of the fields of a Transaction
EncodedFields(transaction) ==
    [signerId |-> serializeField(transaction.signerId, String),
     publicKey |-> serializeField(transaction.publicKey, Class("PublicKey")),
     nonce |-> serializeField(transaction.nonce, U64),
     receiverId |-> serializeField(transaction.receiverId, String),
     actions |-> serializeField(transaction.actions, Vec(Class("Action"))),
     blockHash |-> serializeField(transaction.blockHash, Fixed(BlockHashLen))]

\* C10, as stated: the encoding of a Transaction is the encodings of signerId,
\* publicKey, nonce, receiverId, actions, blockHash, one after the other in this order
C10_ClassOrder ==
    (codec # <<>> /\ codec[1].cls = "Transaction") =>
        LET f == EncodedFields(codec[1].value)
        IN  codec[1].bytes = f.signerId \o f.publicKey \o f.nonce \o f.receiverId
                                \o f.actions \o f.blockHash

\* C10, amended: the encoding of a Transaction is the encodings of signerId, publicKey,
\* nonce, receiverId, blockHash, actions, one after the other in this order, the order
\* of the schema
C10_SchemaOrder ==
    (codec # <<>> /\ codec[1].cls = "Transaction") =>
        LET f == EncodedFields(codec[1].value)
        IN  codec[1].bytes = f.signerId \o f.publicKey \o f.nonce \o f.receiverId
                                \o f.blockHash \o f.actions

\* a Transaction with actions was encoded: the two orders give different bytes
C10_Witness ==
    /\ codec # <<>>
    /\ codec[1].cls = "Transaction"
    /\ codec[1].value.actions # <<>>
    /\ LET f == EncodedFields(codec[1].value)
       IN  f.actions \o f.blockHash # f.blockHash \o f.actions

\* ---------------------------------------------------------- specifications
Init ==
    /\ calls = [p \in Calls |-> IdleCall]
    /\ delegateOut = <<>>
    /\ codec = <<>>

Next ==
    \E p \in Calls :
        \/ SignTransactionPrebuilt(p)
        \/ SignTransactionParts(p)
        \/ GetPublicKeyReturns(p)
        \/ GetPublicKeyFails(p)
        \/ SignMessageReturns(p)
        \/ SignMessageFails(p)
        \/ Return(p)

Spec == Init /\ [][Next]_vars

NextDelegate ==
    \/ DelegateActionCall
    \/ RelayDelegate
    \/ SignMessageReturns(1)
    \/ SignMessageFails(1)
    \/ Return(1)

SpecDelegate == Init /\ [][NextDelegate]_vars

NextCodec ==
    \/ EncodeDecodeTransaction
    \/ EncodeDecodeSignedTransaction
    \/ EncodeDecodeAction

SpecCodec == Init /\ [][NextCodec]_vars
====
